---- MODULE Spec2Model ----
(***************************************************************************)
(* Model of .github/scripts/extract_fqdns.py: the discovery of FQDNs in    *)
(* the YAML files under system/ and the synthesis of the Gatus endpoints.  *)
(*                                                                         *)
(* Python strings are TLA+ strings (Len, SubSeq, Head, Tail and \o act on  *)
(* them character by character).  A YAML node is a record                  *)
(*   [t |-> "map" | "seq" | "str" | "other", s |-> string, items |-> seq]  *)
(* where the items of a "map" are [k |-> key, v |-> node] in insertion     *)
(* order, the items of a "seq" are nodes, and "other" is a scalar that is  *)
(* not a string (int, bool, date, null), s holding its source text.        *)
(***************************************************************************)
EXTENDS Integers, Sequences, FiniteSets, TLC

VARIABLES
    pc,             \* main: position in main()
    sep,            \* main: separator str(Path) uses ("/" POSIX, "\\" Windows)
    system_exists,  \* main: whether the directory system/ exists
    files,          \* main: the files system_dir.glob yields, in the order it yields them
    idx,            \* main: number of files already analysed
    all_fqdns,      \* main: list of {fqdn, source_file, app_name}
    unique_fqdns,   \* main: list after deduplication (then sorted in place)
    endpoints_list, \* main: list of endpoints written to gatus-endpoints.yml
    opened,         \* main: paths handed to open(), in order
    returned,       \* main: what find_fqdn_in_yaml returned (or raised) for each analysed file
    fqdn,           \* is_valid_fqdn: the argument
    verdict,        \* is_valid_fqdn: <<>> before the call, <<value returned>> after it
    obj,            \* extract_fqdn_recursive: the argument
    walked,         \* extract_fqdn_recursive: the progress of the call and its outcome
    ep_in,          \* create_simple_endpoint: the arguments
    ep_out          \* create_simple_endpoint: <<>> before the call, <<endpoint>> after it

vars == <<pc, sep, system_exists, files, idx, all_fqdns, unique_fqdns,
          endpoints_list, opened, returned, fqdn, verdict, obj, walked,
          ep_in, ep_out>>

mainVars == <<pc, sep, system_exists, files, idx, all_fqdns, unique_fqdns,
              endpoints_list, opened, returned>>

validVars == <<fqdn, verdict>>

walkVars == <<obj, walked>>

epVars == <<ep_in, ep_out>>

(***************************************************************************)
(* Python str operations                                                   *)
(***************************************************************************)

\* With(v, F) is LET x == v IN F(x), v being evaluated once
With(v, F(_)) == F(v)

\* the elements of a sequence
Range(seq) == { seq[i] : i \in 1..Len(seq) }

\* sub in s
Contains(s, sub) ==
    \E i \in 1..(Len(s) - Len(sub) + 1) : SubSeq(s, i, i + Len(sub) - 1) = sub

\* s[i-1:j]: the characters i..j of s that exist
Slice(s, i, j) ==
    IF i > Len(s) \/ j < i THEN "" ELSE SubSeq(s, i, IF j > Len(s) THEN Len(s) ELSE j)

\* s.startswith(p)
StartsWith(s, p) ==
    Len(s) >= Len(p) /\ SubSeq(s, 1, Len(p)) = p

\* s.find(sub) + 1: the position of the first occurrence of sub, 0 when there is none
Find(s, sub) ==
    IF Contains(s, sub)
    THEN CHOOSE i \in 1..(Len(s) - Len(sub) + 1) :
            /\ SubSeq(s, i, i + Len(sub) - 1) = sub
            /\ \A j \in 1..(i - 1) : SubSeq(s, j, j + Len(sub) - 1) # sub
    ELSE 0

\* The characters the model's strings are made of, in code-point order.
Alphabet == "\n \"#,-./0123456789:?@ABCDEFGHIJKLMNOPQRSTUVWXYZ[\\]_abcdefghijklmnopqrstuvwxyz{}~"

UpperCase == "ABCDEFGHIJKLMNOPQRSTUVWXYZ"

LowerCase == "abcdefghijklmnopqrstuvwxyz"

\* ord(c), up to an order-preserving renumbering
Ord(c) == Find(Alphabet, c)

\* c.lower() for one character
LowerChar(c) ==
    With(Find(UpperCase, c), LAMBDA i : IF i > 0 THEN SubSeq(LowerCase, i, i) ELSE c)

RECURSIVE lower(_)
\* s.lower()
lower(s) == IF s = "" THEN "" ELSE LowerChar(Head(s)) \o lower(Tail(s))

RECURSIVE StrLess(_, _)
\* a < b on Python str: lexicographic by code point
StrLess(a, b) ==
    IF b = "" THEN FALSE
    ELSE IF a = "" THEN TRUE
    ELSE IF Head(a) = Head(b) THEN StrLess(Tail(a), Tail(b))
    ELSE Ord(Head(a)) < Ord(Head(b))

RECURSIVE split(_, _)
\* s.split(d): the pieces of s between the occurrences of d
split(s, d) ==
    With(Find(s, d), LAMBDA p :
        IF p = 0 THEN <<s>>
        ELSE <<SubSeq(s, 1, p - 1)>> \o split(SubSeq(s, p + Len(d), Len(s)), d))

RECURSIVE join(_, _)
\* d.join(parts)
join(parts, d) ==
    IF Len(parts) = 0 THEN ""
    ELSE IF Len(parts) = 1 THEN parts[1]
    ELSE parts[1] \o d \o join(Tail(parts), d)

(***************************************************************************)
(* is_valid_fqdn                                                           *)
(***************************************************************************)

invalid_patterns ==
    << "example.com", "example.local", "chart-example.local", "localhost",
       "127.0.0.1", "0.0.0.0", ".local", "example.org", "test.com",
       "httpbin.org", "quay.io", "github.com", "kubernetes.io", "argoproj.io",
       "hashicorp.com", "redhat.io", "microsoftonline.com" >>

\* is_valid_fqdn with the patterns matched against fqdn itself, not fqdn.lower()
is_valid_fqdn_case_sensitive(f) ==
    /\ \A i \in 1..Len(invalid_patterns) : ~Contains(f, invalid_patterns[i])
    /\ ~(~Contains(f, ".") \/ Contains(f, "{") \/ Contains(f, "}") \/ StartsWith(f, "{{"))

is_valid_fqdn(f) ==
    /\ With(lower(f), LAMBDA fqdn_lower :
            \A i \in 1..Len(invalid_patterns) : ~Contains(fqdn_lower, invalid_patterns[i]))
    /\ ~(~Contains(f, ".") \/ Contains(f, "{") \/ Contains(f, "}") \/ StartsWith(f, "{{"))

(***************************************************************************)
(* YAML nodes, and the part of yaml.safe_load / yaml.safe_load_all the     *)
(* model's inputs use: documents separated by "---" lines, each a block    *)
(* mapping of one "key: value" line per entry (or a single scalar line),   *)
(* blank and "#" lines skipped; a value is a plain scalar, a double-quoted *)
(* scalar with the escapes \n \" \\, or a flow sequence [a, b] of plain    *)
(* scalars.  Plain scalars resolve as the YAML 1.1 types null, bool, int,  *)
(* float and date do, everything else being a string.                      *)
(***************************************************************************)

Str(s) == [t |-> "str", s |-> s, items |-> <<>>]

Other(s) == [t |-> "other", s |-> s, items |-> <<>>]

Dict(items) == [t |-> "map", s |-> "", items |-> items]

List(items) == [t |-> "seq", s |-> "", items |-> items]

None == Other("")

\* bool(node): the truth value Python gives the constructed object
Truthy(node) ==
    CASE node.t \in {"map", "seq"} -> node.items # <<>>
      [] node.t = "str" -> node.s # ""
      [] OTHER -> node.s \notin {"", "~", "null", "Null", "NULL", "false", "False",
                                 "FALSE", "no", "No", "NO", "off", "Off", "OFF",
                                 "0", "0.0"}

Digits == "0123456789"

IsDigits(s) == s # "" /\ \A i \in 1..Len(s) : Contains(Digits, SubSeq(s, i, i))

RECURSIVE ToInt(_)
\* int(s) for a string of digits
ToInt(s) ==
    IF s = "" THEN 0
    ELSE 10 * ToInt(SubSeq(s, 1, Len(s) - 1)) + (Find(Digits, SubSeq(s, Len(s), Len(s))) - 1)

IsNullText(s) == s \in {"", "~", "null", "Null", "NULL"}

IsBoolText(s) ==
    s \in {"yes", "Yes", "YES", "no", "No", "NO", "true", "True", "TRUE",
           "false", "False", "FALSE", "on", "On", "ON", "off", "Off", "OFF"}

IsIntText(s) == IsDigits(s)

\* digits "." digits, one of the two runs of digits possibly empty
IsFloatText(s) ==
    With(Find(s, "."), LAMBDA p :
        /\ p >= 1 /\ Len(s) > 1
        /\ IsDigits(SubSeq(s, 1, p - 1) \o SubSeq(s, p + 1, Len(s))))

\* the resolver's date form dddd-dd-dd
IsDateText(s) ==
    /\ Len(s) = 10
    /\ IsDigits(SubSeq(s, 1, 4)) /\ SubSeq(s, 5, 5) = "-"
    /\ IsDigits(SubSeq(s, 6, 7)) /\ SubSeq(s, 8, 8) = "-"
    /\ IsDigits(SubSeq(s, 9, 10))

DaysInMonth(y, m) ==
    CASE m \in {4, 6, 9, 11} -> 30
      [] m = 2 -> IF (y % 4 = 0 /\ y % 100 # 0) \/ y % 400 = 0 THEN 29 ELSE 28
      [] OTHER -> 31

\* whether datetime.date(year, month, day) accepts the date the text names
DateConstructs(s) ==
    With(<<ToInt(SubSeq(s, 1, 4)), ToInt(SubSeq(s, 6, 7)), ToInt(SubSeq(s, 9, 10))>>,
         LAMBDA ymd : /\ ymd[1] >= 1
                      /\ ymd[2] \in 1..12
                      /\ ymd[3] \in 1..DaysInMonth(ymd[1], ymd[2]))

Ok(node) == [status |-> "ok", node |-> node]

Raise(e) == [status |-> e, node |-> None]

\* a plain scalar: the implicit resolver, then the constructor of the type it names
ResolvePlain(s) ==
    IF IsNullText(s) \/ IsBoolText(s) \/ IsIntText(s) \/ IsFloatText(s) THEN Ok(Other(s))
    ELSE IF IsDateText(s)
         THEN (IF DateConstructs(s) THEN Ok(Other(s)) ELSE Raise("ValueError"))
    ELSE Ok(Str(s))

RECURSIVE QuotedClosed(_)
\* the text after an opening double quote: well formed iff its first unescaped quote ends it
QuotedClosed(s) ==
    IF s = "" THEN FALSE
    ELSE IF Head(s) = "\"" THEN Len(s) = 1
    ELSE IF Head(s) = "\\" THEN Len(s) >= 2
                                /\ SubSeq(s, 2, 2) \in {"n", "\"", "\\"}
                                /\ QuotedClosed(SubSeq(s, 3, Len(s)))
    ELSE QuotedClosed(Tail(s))

RECURSIVE Unescape(_)
\* the value of the text between double quotes
Unescape(s) ==
    IF s = "" THEN ""
    ELSE IF Head(s) = "\\" /\ Len(s) >= 2
         THEN (IF SubSeq(s, 2, 2) = "n" THEN "\n" ELSE SubSeq(s, 2, 2))
              \o Unescape(SubSeq(s, 3, Len(s)))
    ELSE Head(s) \o Unescape(Tail(s))

\* whether a plain scalar may continue over this text
PlainOk(s) == ~Contains(s, ": ") /\ ~(s # "" /\ SubSeq(s, Len(s), Len(s)) = ":")

\* the flow sequence [a, b, ...]: its items, resolved in order
FlowSeq(inner) ==
    With(IF inner = "" THEN <<>> ELSE split(inner, ", "), LAMBDA texts :
        IF \E i \in 1..Len(texts) :
              ~PlainOk(texts[i]) \/ texts[i] = "" \/ Contains(texts[i], "[")
              \/ Contains(texts[i], "]")
        THEN Raise("YAMLError")
        ELSE With([i \in 1..Len(texts) |-> ResolvePlain(texts[i])], LAMBDA res :
                 IF \E i \in 1..Len(res) : res[i].status # "ok" THEN Raise("ValueError")
                 ELSE Ok(List([i \in 1..Len(res) |-> res[i].node]))))

\* a value: the text after "key: ".  A value that opens with {{ is a flow mapping
\* whose key is a mapping: the constructor rejects it (ConstructorError) after the
\* scalars of the document are constructed, hence the status of its own.
ParseValue(s) ==
    IF Slice(s, 1, 1) = "\""
    THEN (IF QuotedClosed(Tail(s))
          THEN Ok(Str(Unescape(SubSeq(s, 2, Len(s) - 1))))
          ELSE Raise("YAMLError"))
    ELSE IF Slice(s, 1, 1) = "["
    THEN (IF Len(s) >= 2 /\ SubSeq(s, Len(s), Len(s)) = "]"
          THEN FlowSeq(SubSeq(s, 2, Len(s) - 1))
          ELSE Raise("YAMLError"))
    ELSE IF Slice(s, 1, 2) = "{{" THEN Raise("ConstructorError")
    ELSE IF ~PlainOk(s) THEN Raise("YAMLError")
    ELSE ResolvePlain(s)

\* one line of a document: "key: value", "key:", or else a scalar on its own
\* (key "", which only a document of that single line admits)
ParseLine(line) ==
    With(Find(line, ": "), LAMBDA p :
        IF p > 1
        THEN [k |-> SubSeq(line, 1, p - 1), r |-> ParseValue(SubSeq(line, p + 2, Len(line)))]
        ELSE IF Len(line) > 1 /\ SubSeq(line, Len(line), Len(line)) = ":"
        THEN [k |-> SubSeq(line, 1, Len(line) - 1),
              r |-> IF Contains(SubSeq(line, 1, Len(line) - 1), ":")
                    THEN Raise("YAMLError") ELSE Ok(None)]
        ELSE [k |-> "", r |-> ParseValue(line)])

RECURSIVE DictOf(_)
\* dict of the (key, value) pairs: a repeated key keeps its first position and its last value
DictOf(pairs) ==
    IF pairs = <<>> THEN <<>>
    ELSE With(DictOf(SubSeq(pairs, 1, Len(pairs) - 1)), LAMBDA init :
             IF \E i \in 1..Len(init) : init[i].k = pairs[Len(pairs)].k
             THEN [i \in 1..Len(init) |->
                      IF init[i].k = pairs[Len(pairs)].k THEN pairs[Len(pairs)] ELSE init[i]]
             ELSE Append(init, pairs[Len(pairs)]))

ContentLines(lines) == SelectSeq(lines, LAMBDA l : l # "" /\ ~StartsWith(l, "#"))

\* one document, given as its lines.  Scanner, parser and composer errors come
\* first (the whole document is composed before it is constructed), then the
\* errors of the scalar constructors, then those of the deferred collections.
ParseDocument(lines) ==
    With([i \in 1..Len(ContentLines(lines)) |-> ParseLine(ContentLines(lines)[i])],
         LAMBDA parsed :
        IF parsed = <<>> THEN Ok(None)
        ELSE IF Len(parsed) = 1 /\ parsed[1].k = ""
        THEN (IF parsed[1].r.status = "ConstructorError" THEN Raise("YAMLError")
              ELSE parsed[1].r)
        ELSE IF \E i \in 1..Len(parsed) : parsed[i].k = "" \/ parsed[i].r.status = "YAMLError"
        THEN Raise("YAMLError")
        ELSE IF \E i \in 1..Len(parsed) : parsed[i].r.status = "ValueError"
        THEN Raise("ValueError")
        ELSE IF \E i \in 1..Len(parsed) : parsed[i].r.status = "ConstructorError"
        THEN Raise("YAMLError")
        ELSE Ok(Dict(DictOf([i \in 1..Len(parsed) |->
                                [k |-> parsed[i].k, v |-> parsed[i].r.node]]))))

RECURSIVE SplitDocs(_)
\* the lines of a stream, cut at its "---" lines
SplitDocs(lines) ==
    IF \A i \in 1..Len(lines) : lines[i] # "---" THEN <<lines>>
    ELSE LET p == CHOOSE i \in 1..Len(lines) :
                      lines[i] = "---" /\ \A j \in 1..(i - 1) : lines[j] # "---"
         IN  <<SubSeq(lines, 1, p - 1)>> \o SplitDocs(SubSeq(lines, p + 1, Len(lines)))

\* the documents of a stream, as their lines; text before the first "---" is a
\* document only when it has content
Documents(text) ==
    With(SplitDocs(split(text, "\n")), LAMBDA docs :
        IF ContentLines(docs[1]) = <<>> THEN Tail(docs) ELSE docs)

\* yaml.safe_load_all(text): the outcome of each step of the generator, in order
safe_load_all(text) ==
    With(Documents(text), LAMBDA docs : [i \in 1..Len(docs) |-> ParseDocument(docs[i])])

\* yaml.safe_load(text): the single document of the stream (ComposerError when
\* there are more, None when there is none)
safe_load(text) ==
    With(safe_load_all(text), LAMBDA docs :
        IF Len(docs) = 0 THEN Ok(None)
        ELSE IF Len(docs) > 1 THEN Raise("YAMLError")
        ELSE docs[1])

(***************************************************************************)
(* extract_fqdn_recursive                                                  *)
(*                                                                         *)
(* The outcome of a call (or of one iteration of its loop over a mapping): *)
(*   raised  the exception that left it ("" when it returned)              *)
(*   fqdns   the list it returned (<<>> when it raised)                    *)
(*   rules   [k, v, rule]: the branch taken for each mapping entry it met   *)
(*   loads   the strings handed to yaml.safe_load, in order                *)
(*   visits  the objects handed to the recursive calls it made, in order   *)
(***************************************************************************)

Nothing == [raised |-> "", fqdns |-> <<>>, rules |-> <<>>, loads |-> <<>>, visits |-> <<>>]

\* the outcome of a branch that neither loads nor recurses
Found(fs) == [Nothing EXCEPT !.fqdns = fs]

\* a, then b unless a raised
Then(a, b) ==
    IF a.raised # "" THEN a
    ELSE [raised |-> b.raised,
          fqdns  |-> IF b.raised # "" THEN <<>> ELSE a.fqdns \o b.fqdns,
          rules  |-> a.rules \o b.rules,
          loads  |-> a.loads \o b.loads,
          visits |-> a.visits \o b.visits]

\* the outcome of dispatching the entry of key k to the branch named rule
Dispatched(k, v, rule, out) ==
    Then([Nothing EXCEPT !.rules = <<[k |-> k, v |-> v, rule |-> rule]>>], out)

\* whether r"https?://([^/]+)" matches at position i of v
UrlMatchAt(v, i) ==
    \/ /\ Slice(v, i, i + 6) = "http://"
       /\ i + 7 <= Len(v) /\ Slice(v, i + 7, i + 7) # "/"
    \/ /\ Slice(v, i, i + 7) = "https://"
       /\ i + 8 <= Len(v) /\ Slice(v, i + 8, i + 8) # "/"

\* where group 1 starts for a match at position i
UrlGroupStart(v, i) == IF Slice(v, i, i + 6) = "http://" THEN i + 7 ELSE i + 8

\* the positions of v where the pattern matches
UrlMatches(v) == { i \in 1..Len(v) : UrlMatchAt(v, i) }

\* the leftmost of a non-empty set of positions
Leftmost(ps) == CHOOSE i \in ps : \A j \in ps : i <= j

\* the longest run of characters other than "/" that s starts with
UpToSlash(s) ==
    With(Find(s, "/"), LAMBDA p : IF p = 0 THEN s ELSE SubSeq(s, 1, p - 1))

\* re.search with the group running to the end of the string
url_search_group_to_end(v) ==
    With(UrlMatches(v), LAMBDA ps :
        IF ps = {} THEN <<>>
        ELSE <<SubSeq(v, UrlGroupStart(v, Leftmost(ps)), Len(v))>>)

\* re.search(r"https?://([^/]+)", v): <<group(1)>> for the leftmost match, <<>> for None
url_search(v) ==
    With(UrlMatches(v), LAMBDA ps :
        IF ps = {} THEN <<>>
        ELSE <<UpToSlash(SubSeq(v, UrlGroupStart(v, Leftmost(ps)), Len(v)))>>)

direct_keys == {"fqdn", "host", "commonName", "domain"}

url_keys == {"issuer", "url", "endpoint"}

list_keys == {"hosts", "dnsNames"}

\* lines 86-96
direct_field(value) ==
    Found(IF Contains(value.s, ".") /\ ~StartsWith(value.s, "http") /\ is_valid_fqdn(value.s)
          THEN <<value.s>> ELSE <<>>)

\* lines 98-114
url_field(value) ==
    Found(IF StartsWith(value.s, "http")
          THEN With(url_search(value.s), LAMBDA url_match :
                   IF url_match # <<>> /\ is_valid_fqdn(url_match[1])
                   THEN url_match ELSE <<>>)
          ELSE IF Contains(value.s, ".") /\ is_valid_fqdn(value.s)
          THEN <<value.s>> ELSE <<>>)

\* the test of lines 118-123 without the call of is_valid_fqdn
list_item_ok_unvalidated(item) ==
    /\ item.t = "str"
    /\ Contains(item.s, ".")
    /\ ~StartsWith(item.s, "http")

\* lines 116-125
list_item_ok(item) ==
    /\ item.t = "str"
    /\ Contains(item.s, ".")
    /\ ~StartsWith(item.s, "http")
    /\ is_valid_fqdn(item.s)

list_field(value) ==
    With(SelectSeq(value.items, list_item_ok), LAMBDA kept :
        Found([i \in 1..Len(kept) |-> kept[i].s]))

\* line 127-129
looks_embedded(value) ==
    /\ value.t = "str"
    /\ Contains(value.s, "\n")
    /\ (Contains(value.s, ":") \/ Contains(value.s, "issuer:"))

RECURSIVE extract_fqdn_recursive(_)

\* lines 130-142: except yaml.YAMLError catches the YAML errors only
embedded_field(value) ==
    With(safe_load(value.s), LAMBDA r :
        IF r.status = "YAMLError" THEN [Nothing EXCEPT !.loads = <<value.s>>]
        ELSE IF r.status # "ok"
        THEN [Nothing EXCEPT !.loads = <<value.s>>, !.raised = r.status]
        ELSE IF Truthy(r.node)
        THEN Then([Nothing EXCEPT !.loads = <<value.s>>, !.visits = <<r.node>>],
                  extract_fqdn_recursive(r.node))
        ELSE [Nothing EXCEPT !.loads = <<value.s>>])

\* line 145
fallback(value) ==
    Then([Nothing EXCEPT !.visits = <<value>>], extract_fqdn_recursive(value))

\* one iteration of the loop of lines 82-145 with the embedded-document branch
\* tested first
extract_entry_embedded_first(key, value) ==
    IF looks_embedded(value) THEN Dispatched(key, value, "embedded", embedded_field(value))
    ELSE IF key \in direct_keys /\ value.t = "str"
    THEN Dispatched(key, value, "direct", direct_field(value))
    ELSE IF key \in url_keys /\ value.t = "str" THEN Dispatched(key, value, "url", url_field(value))
    ELSE IF key \in list_keys /\ value.t = "seq"
    THEN Dispatched(key, value, "list", list_field(value))
    ELSE Dispatched(key, value, "fallback", fallback(value))

\* one iteration of the loop of lines 82-145
extract_entry(key, value) ==
    IF key \in direct_keys /\ value.t = "str"
    THEN Dispatched(key, value, "direct", direct_field(value))
    ELSE IF key \in url_keys /\ value.t = "str" THEN Dispatched(key, value, "url", url_field(value))
    ELSE IF key \in list_keys /\ value.t = "seq"
    THEN Dispatched(key, value, "list", list_field(value))
    ELSE IF looks_embedded(value) THEN Dispatched(key, value, "embedded", embedded_field(value))
    ELSE Dispatched(key, value, "fallback", fallback(value))

RECURSIVE InOrder(_)
\* the outcomes of the iterations of a loop, one after the other, up to the
\* first that raises
InOrder(outs) ==
    IF outs = <<>> THEN Nothing ELSE Then(outs[1], InOrder(Tail(outs)))

extract_fqdn_recursive(o) ==
    IF o.t = "map"
    THEN InOrder([i \in 1..Len(o.items) |->
                     extract_entry(o.items[i].k, o.items[i].v)])
    ELSE IF o.t = "seq"
    THEN InOrder([i \in 1..Len(o.items) |->
                     Then([Nothing EXCEPT !.visits = <<o.items[i]>>],
                          extract_fqdn_recursive(o.items[i]))])
    ELSE Nothing

(***************************************************************************)
(* find_fqdn_in_yaml, create_simple_endpoint and the steps of main         *)
(***************************************************************************)

RECURSIVE load_documents(_)
\* lines 28-32: the loop over the documents the generator yields, left by the
\* first exception (logged at line 32); fqdns keeps what was extended before it
load_documents(docs) ==
    IF docs = <<>> THEN [error |-> "", fqdns |-> <<>>]
    ELSE IF docs[1].status # "ok" THEN [error |-> docs[1].status, fqdns |-> <<>>]
    ELSE IF ~Truthy(docs[1].node) THEN load_documents(Tail(docs))
    ELSE With(extract_fqdn_recursive(docs[1].node), LAMBDA found :
             IF found.raised # "" THEN [error |-> found.raised, fqdns |-> <<>>]
             ELSE With(load_documents(Tail(docs)), LAMBDA rest :
                      [error |-> rest.error, fqdns |-> found.fqdns \o rest.fqdns]))

\* line 20 without the test for the backslash form
is_template_path_posix_only(path) == Contains(path, "/templates/")

\* line 20
is_template_path(path) ==
    Contains(path, "/templates/") \/ Contains(path, "\\templates\\")

\* find_fqdn_in_yaml(file_path), path being str(file_path) and file what is on disk:
\* the list returned, the exception caught (if any) and whether open() was called
find_fqdn_in_yaml(path, file) ==
    IF is_template_path(path) THEN [fqdns |-> <<>>, error |-> "", opened |-> FALSE]
    ELSE IF ~file.readable THEN [fqdns |-> <<>>, error |-> "OSError", opened |-> TRUE]
    ELSE With(load_documents(safe_load_all(file.text)), LAMBDA r :
             [fqdns |-> r.fqdns, error |-> r.error, opened |-> TRUE])

\* create_simple_endpoint naming every endpoint after the first label
create_simple_endpoint_first_label(f, app, source_file) ==
    [name       |-> app \o "-" \o split(f, ".")[1],
     url        |-> "https://" \o f,
     interval   |-> "5m",
     conditions |-> <<"[STATUS] == 200", "[RESPONSE_TIME] < 3000">>]

create_simple_endpoint(f, app, source_file) ==
    [name       |-> IF Contains(f, "staging") THEN app \o "-staging"
                    ELSE app \o "-" \o split(f, ".")[1],
     url        |-> "https://" \o f,
     interval   |-> "5m",
     conditions |-> <<"[STATUS] == 200", "[RESPONSE_TIME] < 3000">>]

\* lines 201-203
app_name(parts) == IF Len(parts) > 1 THEN parts[2] ELSE "unknown"

RECURSIVE dedupe_last_wins(_, _, _)
\* the loop of lines 211-214 with a later occurrence replacing the one kept
dedupe_last_wins(list, unique, seen) ==
    IF list = <<>> THEN unique
    ELSE IF list[1].fqdn \in seen
         THEN dedupe_last_wins(Tail(list),
                  [i \in 1..Len(unique) |->
                      IF unique[i].fqdn = list[1].fqdn THEN list[1] ELSE unique[i]], seen)
    ELSE dedupe_last_wins(Tail(list), Append(unique, list[1]), seen \cup {list[1].fqdn})

RECURSIVE dedupe(_, _, _)
\* the loop of lines 211-214
dedupe(list, unique, seen) ==
    IF list = <<>> THEN unique
    ELSE IF list[1].fqdn \in seen THEN dedupe(Tail(list), unique, seen)
    ELSE dedupe(Tail(list), Append(unique, list[1]), seen \cup {list[1].fqdn})

\* the comparison of line 217 on the fqdn alone
KeyLeqFqdnOnly(a, b) == ~StrLess(b.fqdn, a.fqdn)

\* (a.app_name, a.fqdn) <= (b.app_name, b.fqdn) on Python tuples of str
KeyLeq(a, b) ==
    IF a.app_name # b.app_name THEN StrLess(a.app_name, b.app_name)
    ELSE ~StrLess(b.fqdn, a.fqdn)

RECURSIVE insert_sorted(_, _)
insert_sorted(sorted, x) ==
    IF sorted = <<>> THEN <<x>>
    ELSE IF KeyLeq(sorted[Len(sorted)], x) THEN Append(sorted, x)
    ELSE Append(insert_sorted(SubSeq(sorted, 1, Len(sorted) - 1), x), sorted[Len(sorted)])

RECURSIVE sort_by_key(_)
\* list.sort(key=lambda x: (x["app_name"], x["fqdn"])): the stable sort
sort_by_key(list) ==
    IF list = <<>> THEN <<>>
    ELSE insert_sorted(sort_by_key(SubSeq(list, 1, Len(list) - 1)), list[Len(list)])

(***************************************************************************)
(* main(): the files under system/, and the run                            *)
(***************************************************************************)

\* most files one run enumerates
MaxFiles == 3

File(parts, text) == [parts |-> parts, readable |-> TRUE, text |-> text]

\* the files a tree under system/ may hold; parts is Path.parts
Catalogue ==
    << File(<<"system", "app1", "cert.yaml">>, "domain: api.app1.io"),
       File(<<"system", "app1", "ingress.yaml">>, "host: staging.app1.io"),
       File(<<"system", "app2", "svc.yaml">>, "fqdn: app2.io"),
       File(<<"system", "Zeta", "dup.yml">>,
            "host: api.app1.io\nhosts: [app2.io, Api.app1.io, x.quay.io]"),
       File(<<"system", "app", "templates", "deployment.yaml">>, "host: real.example.io"),
       File(<<"system", "app3", "multi.yaml">>,
            "host: one.app3.io\n---\nfoo: [bar\n---\nhost: never.app3.io"),
       File(<<"system", "app3", "bad.yml">>, "foo: [bar\n---\nhost: late.app3.io"),
       [parts |-> <<"system", "app1", "locked.yaml">>, readable |-> FALSE, text |-> ""] >>

\* whether the second pattern, "**/*.yml", is the one that matches the file
IsYml(file) ==
    With(file.parts[Len(file.parts)], LAMBDA name : Slice(name, Len(name) - 3, Len(name)) = ".yml")

RECURSIVE Arrangements(_, _)
\* the sequences of n distinct elements of S
Arrangements(S, n) ==
    IF n = 0 THEN {<<>>}
    ELSE UNION { { <<x>> \o rest : rest \in Arrangements(S \ {x}, n - 1) } : x \in S }

\* the positions in Catalogue of the files the pattern matches
Matches(yml) == { i \in 1..Len(Catalogue) : IsYml(Catalogue[i]) = yml }

\* glob("**/*.yaml") then glob("**/*.yml"), each in the order the directory scan gives:
\* at most MaxFiles files of the tree, every .yaml before every .yml
Enumerations ==
    UNION { UNION { { [i \in 1..(n + m) |-> Catalogue[(yaml \o yml)[i]]] :
                        yaml \in Arrangements(Matches(FALSE), n),
                        yml \in Arrangements(Matches(TRUE), m) }
                    : m \in 0..(MaxFiles - n) }
            : n \in 0..MaxFiles }

\* str(yaml_file)
PathStr(parts) == join(parts, sep)

Init ==
    /\ pc = "scan"
    /\ sep \in {"/", "\\"}
    /\ system_exists \in BOOLEAN
    /\ files \in IF system_exists THEN Enumerations ELSE {<<>>}
    /\ idx = 0
    /\ all_fqdns = <<>>
    /\ unique_fqdns = <<>>
    /\ endpoints_list = <<>>
    /\ opened = <<>>
    /\ returned = <<>>
    /\ fqdn = "" /\ verdict = <<>>
    /\ obj = None /\ walked = <<>>
    /\ ep_in = <<>> /\ ep_out = <<>>

\* lines 182-184
MissingSystemDir ==
    /\ pc = "scan" /\ ~system_exists
    /\ pc' = "returned"
    /\ UNCHANGED <<sep, system_exists, files, idx, all_fqdns, unique_fqdns,
                   endpoints_list, opened, returned, validVars, walkVars, epVars>>

\* lines 192-205: one file of the enumeration
AnalyseFile ==
    /\ pc = "scan" /\ system_exists /\ idx < Len(files)
    /\ \E file \in {files[idx + 1]} :
       \E path \in {PathStr(file.parts)} :
       \E r \in {find_fqdn_in_yaml(path, file)} :
           /\ all_fqdns' = all_fqdns \o
                  [i \in 1..Len(r.fqdns) |->
                      [fqdn        |-> r.fqdns[i],
                       source_file |-> path,
                       app_name    |-> app_name(file.parts)]]
           /\ opened' = IF r.opened THEN Append(opened, path) ELSE opened
           /\ returned' = Append(returned, r)
    /\ idx' = idx + 1
    /\ UNCHANGED <<pc, sep, system_exists, files, unique_fqdns, endpoints_list,
                   validVars, walkVars, epVars>>

\* lines 208-214
Deduplicate ==
    /\ pc = "scan" /\ system_exists /\ idx = Len(files)
    /\ unique_fqdns' = dedupe(all_fqdns, <<>>, {})
    /\ pc' = "sort"
    /\ UNCHANGED <<sep, system_exists, files, idx, all_fqdns, endpoints_list,
                   opened, returned, validVars, walkVars, epVars>>

\* line 217
Sort ==
    /\ pc = "sort"
    /\ unique_fqdns' = sort_by_key(unique_fqdns)
    /\ pc' = "endpoints"
    /\ UNCHANGED <<sep, system_exists, files, idx, all_fqdns, endpoints_list,
                   opened, returned, validVars, walkVars, epVars>>

\* lines 220-227
CreateEndpoints ==
    /\ pc = "endpoints"
    /\ endpoints_list' =
           [i \in 1..Len(unique_fqdns) |->
               create_simple_endpoint(unique_fqdns[i].fqdn, unique_fqdns[i].app_name,
                                      unique_fqdns[i].source_file)]
    /\ pc' = "write"
    /\ UNCHANGED <<sep, system_exists, files, idx, all_fqdns, unique_fqdns,
                   opened, returned, validVars, walkVars, epVars>>

\* lines 230-257: the endpoints are dumped as they are
WriteConfig ==
    /\ pc = "write"
    /\ pc' = "done"
    /\ UNCHANGED <<sep, system_exists, files, idx, all_fqdns, unique_fqdns,
                   endpoints_list, opened, returned, validVars, walkVars, epVars>>

Next ==
    \/ MissingSystemDir
    \/ AnalyseFile
    \/ Deduplicate
    \/ Sort
    \/ CreateEndpoints
    \/ WriteConfig

Spec == Init /\ [][Next]_vars

(***************************************************************************)
(* is_valid_fqdn, called on its own                                        *)
(***************************************************************************)

Prefixes == {"", "foo.", "{{", "a{b.", "Sub-"}

Cores ==
    { invalid_patterns[i] : i \in 1..Len(invalid_patterns) }
    \cup {"EXAMPLE.COM", "Quay.IO", "LocalHost", ".LOCAL", "GitHub.com"}
    \cup {"app.mycompany.io", "mycompany", "corp.io", "local", "example",
          "quay-io", "127.0.0.2", " .Values.host ", ""}

Suffixes == {"", ".io", "}}", ":8080", "}.x"}

ValidInputs == { p \o c \o q : p \in Prefixes, c \in Cores, q \in Suffixes }

InitValid ==
    /\ fqdn \in ValidInputs
    /\ verdict = <<>>
    /\ pc = "unused" /\ sep = "/" /\ system_exists = FALSE /\ files = <<>> /\ idx = 0
    /\ all_fqdns = <<>> /\ unique_fqdns = <<>> /\ endpoints_list = <<>>
    /\ opened = <<>> /\ returned = <<>>
    /\ obj = None /\ walked = <<>>
    /\ ep_in = <<>> /\ ep_out = <<>>

Validate ==
    /\ verdict = <<>>
    /\ verdict' = <<is_valid_fqdn(fqdn)>>
    /\ UNCHANGED <<fqdn, mainVars, walkVars, epVars>>

NextValid == Validate

SpecValid == InitValid /\ [][NextValid]_vars

(***************************************************************************)
(* create_simple_endpoint, called on its own                               *)
(***************************************************************************)

EndpointFqdns ==
    {"api.app1.io", "staging.app1.io", "app2.io", "api.staging.corp.io",
     "Staging.corp.io", "prestaging2.corp.io", "nodot", ".hidden.io", "stag.ing.io",
     "a.b-staging"}

EndpointApps == {"app1", "app2", "Zeta", "unknown"}

EndpointSources == {"system/app1/cert.yaml", "system\\app2\\svc.yml", ""}

InitEndpoint ==
    /\ ep_in \in EndpointFqdns \X EndpointApps \X EndpointSources
    /\ ep_out = <<>>
    /\ pc = "unused" /\ sep = "/" /\ system_exists = FALSE /\ files = <<>> /\ idx = 0
    /\ all_fqdns = <<>> /\ unique_fqdns = <<>> /\ endpoints_list = <<>>
    /\ opened = <<>> /\ returned = <<>>
    /\ fqdn = "" /\ verdict = <<>>
    /\ obj = None /\ walked = <<>>

Synthesize ==
    /\ ep_out = <<>>
    /\ ep_out' = <<create_simple_endpoint(ep_in[1], ep_in[2], ep_in[3])>>
    /\ UNCHANGED <<ep_in, mainVars, validVars, walkVars>>

NextEndpoint == Synthesize

SpecEndpoint == InitEndpoint /\ [][NextEndpoint]_vars

(***************************************************************************)
(* extract_fqdn_recursive, called on a mapping: the loop of line 82 taken   *)
(* one entry at a time                                                     *)
(***************************************************************************)

\* most entries the mapping handed to extract_fqdn_recursive has
MaxEntries == 2

Entry(k, v) == [k |-> k, v |-> v]

\* the entries the mapping is made of
WalkEntries ==
    << Entry("host", Str("a.corp.io")),
       Entry("fqdn", Str("registry.Quay.io")),
       Entry("domain", Str("{{ .Values.host }}")),
       Entry("host", Str("m.corp.io\nissuer: https://in.corp.io")),
       Entry("host", List(<<Str("l.corp.io"), Dict(<<Entry("host", Str("deep.corp.io"))>>)>>)),
       Entry("issuer", Str("https://auth.mycompany.io/dex")),
       Entry("issuer", Str("https://LocalHost:8080/x")),
       Entry("url", Str("http://svc.corp.io")),
       Entry("url", Str("http:///http://b.corp.io/p")),
       Entry("url", Str("httpd.corp.io")),
       Entry("endpoint", Str("plain.corp.io")),
       Entry("endpoint", Str("ftp://f.corp.io/x")),
       Entry("hosts", List(<<Str("h.corp.io"), Str("x.quay.io"), Other("5"),
                             Str("http://e.corp.io"), Str("nodot")>>)),
       Entry("dnsNames", List(<<Str("d.corp.io"), Dict(<<Entry("host", Str("in.corp.io"))>>)>>)),
       Entry("hosts", Str("host: s.corp.io\nx: y")),
       Entry("config", Str("issuer: https://idp.corp.io\nclientID: x")),
       Entry("config", Str("foo: [bar\nhost: lost.corp.io")),
       Entry("config", Str("# note: x\n")),
       Entry("config", Str("d: 2024-02-30\nhost: in.corp.io")),
       Entry("config", Str("a: b\n---\nhost: two.corp.io")),
       Entry("data", Str("outer: \"host: nested.corp.io\\nk: v\"\nhosts: [n.corp.io, k.example.com]")),
       Entry("spec", Dict(<<Entry("host", Str("p.corp.io")), Entry("name", Str("q.corp.io"))>>)),
       Entry("replicas", Other("3")) >>

\* the mappings of at most max of these entries, their keys distinct
WalkInputs(max) ==
    UNION { { Dict([i \in 1..n |-> WalkEntries[pick[i]]]) :
                pick \in { q \in [1..n -> 1..Len(WalkEntries)] :
                             \A i, j \in 1..n :
                                 i # j => WalkEntries[q[i]].k # WalkEntries[q[j]].k } }
            : n \in 0..max }

\* walked: n entries are done, per holds the outcome of each, out the outcome
\* of the call so far, and left says whether the call has ended
InitWalk ==
    /\ obj \in WalkInputs(MaxEntries)
    /\ walked = [n |-> 0, per |-> <<>>, out |-> Nothing, left |-> FALSE]
    /\ pc = "unused" /\ sep = "/" /\ system_exists = FALSE /\ files = <<>> /\ idx = 0
    /\ all_fqdns = <<>> /\ unique_fqdns = <<>> /\ endpoints_list = <<>>
    /\ opened = <<>> /\ returned = <<>>
    /\ fqdn = "" /\ verdict = <<>>
    /\ ep_in = <<>> /\ ep_out = <<>>

\* lines 82-145: one iteration of the loop
WalkEntry ==
    /\ ~walked.left /\ walked.out.raised = "" /\ walked.n < Len(obj.items)
    /\ \E e \in {extract_entry(obj.items[walked.n + 1].k, obj.items[walked.n + 1].v)} :
           walked' = [walked EXCEPT !.n = @ + 1,
                                    !.per = Append(@, e),
                                    !.out = Then(@, e)]
    /\ UNCHANGED <<obj, mainVars, validVars, epVars>>

\* line 150, or the exception of an iteration leaving the call
WalkLeave ==
    /\ ~walked.left
    /\ walked.out.raised # "" \/ walked.n = Len(obj.items)
    /\ walked' = [walked EXCEPT !.left = TRUE]
    /\ UNCHANGED <<obj, mainVars, validVars, epVars>>

NextWalk == WalkEntry \/ WalkLeave

SpecWalk == InitWalk /\ [][NextWalk]_vars

(***************************************************************************)
(* The properties                                                          *)
(***************************************************************************)

\* the 17 denylisted tokens
DenyTokens ==
    {"example.com", "example.local", "chart-example.local", "localhost", "127.0.0.1",
     "0.0.0.0", ".local", "example.org", "test.com", "httpbin.org", "quay.io",
     "github.com", "kubernetes.io", "argoproj.io", "hashicorp.com", "redhat.io",
     "microsoftonline.com"}

\* a candidate the validator is to accept: a dot, no brace, no denylisted token
\* in any letter case
Admissible(c) ==
    /\ Contains(c, ".")
    /\ ~Contains(c, "{") /\ ~Contains(c, "}")
    /\ With(lower(c), LAMBDA low : \A t \in DenyTokens : ~Contains(low, t))

Fqdns(list) == { list[i].fqdn : i \in 1..Len(list) }

\* the index of the earliest record of list that carries f
FirstIndex(list, f) ==
    CHOOSE i \in 1..Len(list) : list[i].fqdn = f /\ \A j \in 1..(i - 1) : list[j].fqdn # f

\* C1: once main has deduplicated, unique_fqdns holds exactly one record for each
\* distinct fqdn of all_fqdns (compared as is, letter case included), that record
\* is the earliest one of all_fqdns carrying the fqdn (its source_file and app_name
\* with it), and right after the deduplication the records stand in the order of
\* their first occurrences.
C1_FirstSeenWins ==
    pc \in {"sort", "endpoints", "write", "done"} =>
        /\ Fqdns(unique_fqdns) = Fqdns(all_fqdns)
        /\ \A i, j \in 1..Len(unique_fqdns) :
               i # j => unique_fqdns[i].fqdn # unique_fqdns[j].fqdn
        /\ \A i \in 1..Len(unique_fqdns) :
               unique_fqdns[i] = all_fqdns[FirstIndex(all_fqdns, unique_fqdns[i].fqdn)]
        /\ pc = "sort" =>
               \A i, j \in 1..Len(unique_fqdns) :
                   i < j => FirstIndex(all_fqdns, unique_fqdns[i].fqdn)
                                < FirstIndex(all_fqdns, unique_fqdns[j].fqdn)

\* a run in which a fqdn was discovered again under another application, and a
\* second fqdn differs from it by letter case only
C1_Witness ==
    /\ pc = "sort"
    /\ \E i, j \in 1..Len(all_fqdns) :
           /\ i < j
           /\ all_fqdns[i].fqdn = all_fqdns[j].fqdn
           /\ all_fqdns[i].app_name # all_fqdns[j].app_name
    /\ \E i, j \in 1..Len(unique_fqdns) :
           /\ unique_fqdns[i].fqdn # unique_fqdns[j].fqdn
           /\ lower(unique_fqdns[i].fqdn) = lower(unique_fqdns[j].fqdn)

\* C2: a file whose read or parse raised an error contributes nothing: the list
\* find_fqdn_in_yaml returned for it is empty and no record of all_fqdns comes
\* from it.
C2_FailedFileYieldsNothing ==
    \A i \in 1..Len(returned) :
        returned[i].error # "" =>
            /\ returned[i].fqdns = <<>>
            /\ \A j \in 1..Len(all_fqdns) :
                   all_fqdns[j].source_file # PathStr(files[i].parts)

\* C3: is_valid_fqdn returns true exactly for the strings that contain a dot, no
\* brace and, lower-cased, none of the 17 denylisted tokens; so it rejects every
\* string that starts with "{{", rejects foo.example.com and accepts
\* app.mycompany.io.
C3_ValidIffAdmissible ==
    verdict # <<>> =>
        /\ verdict[1] = Admissible(fqdn)
        /\ StartsWith(fqdn, "{{") => verdict[1] = FALSE
        /\ fqdn = "foo.example.com" => verdict[1] = FALSE
        /\ fqdn = "app.mycompany.io" => verdict[1] = TRUE

\* a denylisted token in upper case, in a string that is otherwise acceptable
C3_Witness ==
    /\ verdict = <<FALSE>>
    /\ fqdn = "foo.EXAMPLE.COM"

HasTemplatesSegment(parts) == \E p \in 1..Len(parts) : parts[p] = "templates"

IsAuthorityIn(c, s) ==
    /\ c # "" /\ ~Contains(c, "/")
    /\ \E p \in 1..Len(s) :
           /\ Slice(s, p, p + 2) = "://"
           /\ Slice(s, p + 3, p + 2 + Len(c)) = c
           /\ \/ p + 2 + Len(c) = Len(s)
              \/ Slice(s, p + 3 + Len(c), p + 3 + Len(c)) = "/"

\* what stands between the first "://" of s and the next "/" (or the end of s)
Authority(s) == split(SubSeq(s, Find(s, "://") + 3, Len(s)), "/")[1]

RECURSIVE Flatten(_)
Flatten(lists) == IF lists = <<>> THEN <<>> ELSE lists[1] \o Flatten(Tail(lists))

\* C6: an entry that goes to the embedded-document rule raises nothing; when its
\* string does not parse it yields no candidate; and the call returns the
\* candidates of its entries, those before and after such an entry included.
C6_EmbeddedFailureIsSilent ==
    /\ \A i \in 1..Len(walked.per) :
           walked.per[i].rules[1].rule = "embedded" =>
               /\ walked.per[i].raised = ""
               /\ safe_load(obj.items[i].v.s).status # "ok" => walked.per[i].fqdns = <<>>
    /\ walked.left =>
           /\ walked.n = Len(obj.items)
           /\ walked.out.fqdns = Flatten([i \in 1..walked.n |-> walked.per[i].fqdns])

\* (a.app_name, a.fqdn) <= (b.app_name, b.fqdn), strings compared by code point
TupleLeq(a, b) ==
    \/ StrLess(a.app_name, b.app_name)
    \/ a.app_name = b.app_name /\ (a.fqdn = b.fqdn \/ StrLess(a.fqdn, b.fqdn))

ExampleFiles ==
    { File(<<"system", "app1", "cert.yaml">>, "domain: api.app1.io"),
      File(<<"system", "app1", "ingress.yaml">>, "host: staging.app1.io"),
      File(<<"system", "app2", "svc.yaml">>, "fqdn: app2.io") }

\* C7: once sorted, unique_fqdns is ascending by (app_name, fqdn) and still holds
\* one record per distinct fqdn discovered; endpoints_list has one endpoint per
\* record, in the same order; and the three example files give app1-api,
\* app1-staging, app2-app2 in that order, whatever the order of enumeration.
C7_SortedOutput ==
    /\ pc \in {"endpoints", "write", "done"} =>
           /\ \A i, j \in 1..Len(unique_fqdns) :
                  i < j => TupleLeq(unique_fqdns[i], unique_fqdns[j])
           /\ Range(unique_fqdns) \subseteq Range(all_fqdns)
           /\ Fqdns(unique_fqdns) = Fqdns(all_fqdns)
           /\ Len(unique_fqdns) = Cardinality(Fqdns(all_fqdns))
    /\ pc \in {"write", "done"} =>
           /\ Len(endpoints_list) = Len(unique_fqdns)
           /\ \A i \in 1..Len(unique_fqdns) :
                  /\ endpoints_list[i].url = "https://" \o unique_fqdns[i].fqdn
                  /\ StartsWith(endpoints_list[i].name, unique_fqdns[i].app_name \o "-")
    /\ (pc = "done" /\ Range(files) = ExampleFiles) =>
           /\ [i \in 1..Len(endpoints_list) |-> endpoints_list[i].name]
                  = <<"app1-api", "app1-staging", "app2-app2">>
           /\ [i \in 1..Len(endpoints_list) |-> endpoints_list[i].url]
                  = <<"https://api.app1.io", "https://staging.app1.io", "https://app2.io">>

\* the example, its files enumerated with the one of app2 first
C7_Witness ==
    /\ pc = "done"
    /\ Range(files) = ExampleFiles
    /\ files[1].parts[2] = "app2"
    /\ Len(endpoints_list) = 3

\* the part of f before its first dot (f itself when it has none)
FirstLabel(f) ==
    CHOOSE l \in { SubSeq(f, 1, n) : n \in 0..Len(f) } :
        /\ ~Contains(l, ".")
        /\ Len(l) = Len(f) \/ SubSeq(f, Len(l) + 1, Len(l) + 1) = "."

FirstRule(k, v) ==
    IF k \in {"fqdn", "host", "commonName", "domain"} /\ v.t = "str" THEN "direct"
    ELSE IF k \in {"issuer", "url", "endpoint"} /\ v.t = "str" THEN "url"
    ELSE IF k \in {"hosts", "dnsNames"} /\ v.t = "seq" THEN "list"
    ELSE IF v.t = "str" /\ Contains(v.s, "\n") /\ Contains(v.s, ":") THEN "embedded"
    ELSE "fallback"

RECURSIVE EntriesOfMaps(_)
\* the number of entries of the mappings among the objects
EntriesOfMaps(objects) ==
    IF objects = <<>> THEN 0
    ELSE (IF objects[1].t = "map" THEN Len(objects[1].items) ELSE 0)
         + EntriesOfMaps(Tail(objects))

\* C9: every entry the walk meets, at any depth, goes to one rule, the first of
\* direct, url, list, embedded, fallback whose condition holds; an entry that
\* goes to direct, url or list hands nothing to yaml.safe_load and to no recursive
\* call; a call that returns has dispatched every entry of every mapping walked
\* once; and host with a sequence goes to the fallback.
C9_FirstMatchWins ==
    \A i \in 1..Len(walked.per) :
        LET o == walked.per[i]
        IN  /\ o.rules # <<>>
            /\ o.rules[1].k = obj.items[i].k /\ o.rules[1].v = obj.items[i].v
            /\ \A j \in 1..Len(o.rules) :
                   o.rules[j].rule = FirstRule(o.rules[j].k, o.rules[j].v)
            /\ o.rules[1].rule \in {"direct", "url", "list"} =>
                   o.loads = <<>> /\ o.visits = <<>> /\ Len(o.rules) = 1
            /\ o.rules[1].rule = "embedded" => o.loads[1] = obj.items[i].v.s
            /\ o.rules[1].rule = "fallback" =>
                   o.visits # <<>> /\ o.visits[1] = obj.items[i].v
            /\ o.raised = "" => Len(o.rules) = 1 + EntriesOfMaps(o.visits)
            /\ (obj.items[i].k = "host" /\ obj.items[i].v.t = "seq") =>
                   o.rules[1].rule = "fallback" /\ o.visits[1] = obj.items[i].v

\* a multi-line string under host and a mapping inside dnsNames, both walked
C9_Witness ==
    /\ walked.left
    /\ \E i \in 1..Len(walked.per) :
           /\ obj.items[i].k = "host"
           /\ obj.items[i].v.t = "str" /\ Contains(obj.items[i].v.s, "\n")
           /\ walked.per[i].loads = <<>>
    /\ \E i \in 1..Len(walked.per) :
           /\ obj.items[i].k = "dnsNames"
           /\ \E m \in Range(obj.items[i].v.items) : m.t = "map"
           /\ walked.per[i].visits = <<>>

\* C10: every string extract_fqdn_recursive returns, and every string an entry
\* of the mapping yields, is admissible.
C10_ReturnedAreAdmissible ==
    /\ \A c \in Range(walked.out.fqdns) : Admissible(c)
    /\ \A i \in 1..Len(walked.per) : \A c \in Range(walked.per[i].fqdns) : Admissible(c)

\* candidates of an embedded document inside an embedded document and of a list
\* with a denylisted item, returned together
C10_Witness ==
    /\ walked.left
    /\ "nested.corp.io" \in Range(walked.out.fqdns)
    /\ "h.corp.io" \in Range(walked.out.fqdns)
    /\ \E i \in 1..Len(obj.items) :
           obj.items[i].v.t = "seq" /\ Str("x.quay.io") \in Range(obj.items[i].v.items)

====
